---- MODULE Spec2Model ----
(***************************************************************************)
(* Voice AI agent: endpoint detection (VoiceInput), turn control           *)
(* (VoiceConversation), the rule-based response generator and the          *)
(* ElevenLabs / browser text-to-speech components.                         *)
(*                                                                         *)
(* Texts are sequences of one-character strings, so that trim(),           *)
(* toLowerCase() and includes() are computed, not assumed.                 *)
(* Time is counted in ticks of TickMs milliseconds.                        *)
(***************************************************************************)
EXTENDS Integers, Sequences, FiniteSets, TLC

(* ------------------------------ text ---------------------------------- *)

UpperChars == <<"A", "B", "C", "D", "E", "F", "G", "H", "I", "J", "K", "L", "M", "N", "O", "P", "Q", "R", "S", "T", "U", "V", "W", "X", "Y", "Z">>
LowerChars == <<"a", "b", "c", "d", "e", "f", "g", "h", "i", "j", "k", "l", "m", "n", "o", "p", "q", "r", "s", "t", "u", "v", "w", "x", "y", "z">>

\* String.prototype.toLowerCase, one character
LowerChar(c) ==
  IF \E i \in 1..Len(UpperChars) : UpperChars[i] = c
  THEN LowerChars[CHOOSE i \in 1..Len(UpperChars) : UpperChars[i] = c]
  ELSE c

ToLowerCase(s) == [i \in 1..Len(s) |-> LowerChar(s[i])]

IsSpace(c) == c = " "

RECURSIVE TrimLeft(_)
TrimLeft(s) == IF s # <<>> /\ IsSpace(Head(s)) THEN TrimLeft(Tail(s)) ELSE s

RECURSIVE TrimRight(_)
TrimRight(s) ==
  IF s # <<>> /\ IsSpace(s[Len(s)]) THEN TrimRight(SubSeq(s, 1, Len(s) - 1)) ELSE s

\* String.prototype.trim
Trim(s) == TrimRight(TrimLeft(s))

\* String.prototype.includes
Includes(s, p) ==
  \E i \in 0..(Len(s) - Len(p)) : SubSeq(s, i + 1, i + Len(p)) = p

\* String.prototype.startsWith
StartsWith(s, p) == Len(p) <= Len(s) /\ SubSeq(s, 1, Len(p)) = p

\* a JavaScript string used as a condition: '' is falsy
Truthy(s) == s # <<>>

IncludesAny(s, ps) == \E p \in ps : Includes(s, p)

(* ------------------------ response generator --------------------------- *)

greetings ==
  { "Hello! How can I help you today?",
    "Hi there! What would you like to talk about?",
    "Greetings! I'm here to assist you.",
    "Hey! What's on your mind?",
    "Good day! How may I assist you?" }

confirmations ==
  { "I understand what you're saying.",
    "That makes sense to me.",
    "I hear you loud and clear.",
    "Got it! Thanks for sharing that.",
    "I see what you mean." }

encouragements ==
  { "That sounds really interesting!",
    "Tell me more about that!",
    "How fascinating! Please continue.",
    "I'd love to hear more details.",
    "That's quite intriguing!" }

goodbyes ==
  { "It was great talking with you! Have a wonderful day!",
    "Thanks for the conversation! Take care!",
    "Goodbye! Feel free to chat anytime.",
    "See you later! Have a great time ahead!",
    "Farewell! It was a pleasure talking with you." }

ExcitedWords == { <<"h", "a", "p", "p", "y">>, <<"e", "x", "c", "i", "t", "e", "d">>, <<"g", "r", "e", "a", "t">>, <<"a", "w", "e", "s", "o", "m", "e">>, <<"w", "o", "n", "d", "e", "r", "f", "u", "l">>, <<"a", "m", "a", "z", "i", "n", "g">> }
GentleWords == { <<"s", "a", "d">>, <<"u", "p", "s", "e", "t">>, <<"d", "i", "s", "a", "p", "p", "o", "i", "n", "t", "e", "d">>, <<"d", "o", "w", "n">> }
ProfessionalWords == { <<"b", "u", "s", "i", "n", "e", "s", "s">>, <<"w", "o", "r", "k">>, <<"p", "r", "o", "f", "e", "s", "s", "i", "o", "n", "a", "l">>, <<"m", "e", "e", "t", "i", "n", "g">> }
FriendlyWords == { <<"f", "r", "i", "e", "n", "d">>, <<"c", "h", "a", "t">>, <<"t", "a", "l", "k">>, <<"h", "e", "y">>, <<"h", "i", " ">> }

\* a variant of detectEmotion that tests the sad keywords before the positive ones
detectEmotionGentleFirst(input) ==
  LET lowerInput == ToLowerCase(input) IN
  IF IncludesAny(lowerInput, GentleWords) THEN "gentle"
  ELSE IF IncludesAny(lowerInput, ExcitedWords) THEN "excited"
  ELSE IF IncludesAny(lowerInput, ProfessionalWords) THEN "professional"
  ELSE IF IncludesAny(lowerInput, FriendlyWords) \/ StartsWith(lowerInput, <<"h", "i">>)
       THEN "friendly"
  ELSE "neutral"

detectEmotion(input) ==
  LET lowerInput == ToLowerCase(input) IN
  IF IncludesAny(lowerInput, ExcitedWords) THEN "excited"
  ELSE IF IncludesAny(lowerInput, GentleWords) THEN "gentle"
  ELSE IF IncludesAny(lowerInput, ProfessionalWords) THEN "professional"
  ELSE IF IncludesAny(lowerInput, FriendlyWords) \/ StartsWith(lowerInput, <<"h", "i">>)
       THEN "friendly"
  ELSE "neutral"

GreetingWords == { <<"h", "e", "l", "l", "o">>, <<"h", "i">>, <<"h", "e", "y">>, <<"g", "o", "o", "d", " ", "m", "o", "r", "n", "i", "n", "g">>, <<"g", "o", "o", "d", " ", "e", "v", "e", "n", "i", "n", "g">> }
GoodbyeWords == { <<"b", "y", "e">>, <<"g", "o", "o", "d", "b", "y", "e">>, <<"s", "e", "e", " ", "y", "o", "u">>, <<"f", "a", "r", "e", "w", "e", "l", "l">>, <<"t", "a", "l", "k", " ", "t", "o", " ", "y", "o", "u", " ", "l", "a", "t", "e", "r">> }
ThanksWords == { <<"t", "h", "a", "n", "k">>, <<"t", "h", "a", "n", "k", "s">> }
QuestionWords == { <<"?">>, <<"w", "h", "a", "t">>, <<"h", "o", "w">>, <<"w", "h", "y">>, <<"w", "h", "e", "n">>, <<"w", "h", "e", "r", "e">> }
HelpWords == { <<"h", "e", "l", "p">>, <<"a", "s", "s", "i", "s", "t">>, <<"s", "u", "p", "p", "o", "r", "t">> }

\* a variant of detectIntent that tests the help keywords before the question ones
detectIntentHelpFirst(input) ==
  LET lowerInput == ToLowerCase(input) IN
  IF IncludesAny(lowerInput, GreetingWords) THEN "greeting"
  ELSE IF IncludesAny(lowerInput, GoodbyeWords) THEN "goodbye"
  ELSE IF IncludesAny(lowerInput, ThanksWords) THEN "thanks"
  ELSE IF IncludesAny(lowerInput, HelpWords) THEN "help"
  ELSE IF IncludesAny(lowerInput, QuestionWords) THEN "question"
  ELSE "conversation"

detectIntent(input) ==
  LET lowerInput == ToLowerCase(input) IN
  IF IncludesAny(lowerInput, GreetingWords) THEN "greeting"
  ELSE IF IncludesAny(lowerInput, GoodbyeWords) THEN "goodbye"
  ELSE IF IncludesAny(lowerInput, ThanksWords) THEN "thanks"
  ELSE IF IncludesAny(lowerInput, QuestionWords) THEN "question"
  ELSE IF IncludesAny(lowerInput, HelpWords) THEN "help"
  ELSE "conversation"

ThanksReply == "You're very welcome! I'm glad I could help you."

QuestionPrefix ==
  "That's a great question! While I'm a voice interface demo, I can reflect on what you're asking. "

HelpReply ==
  "I'm here to help! I can listen to what you say and respond with different voice styles. " \o
  "Try asking me something or just have a conversation!"

BaseResponses ==
  { c \o " You mentioned something really thoughtful." : c \in confirmations }
  \cup { "I find that quite interesting! " \o e : e \in encouragements }
  \cup { c \o " That sounds like something worth exploring further." : c \in confirmations }
  \cup { "Thanks for sharing that with me! I appreciate your perspective on this.",
         "That's a fascinating point! I can tell you've put thought into this." }

ExcitedResponses ==
  { "Your enthusiasm is contagious! I love your energy!",
    "How exciting! That sounds absolutely wonderful!" }

GentleResponses ==
  { "I understand this might be difficult to talk about. I'm here to listen.",
    "Thank you for sharing something so personal with me." }

ProfessionalResponses ==
  { "I appreciate you bringing this professional matter to my attention.",
    "That's a very professional approach to handling this situation." }

\* a variant of generateContextualResponse that appends the excited entries to
\* the conversation pool whatever the emotion is
generateContextualResponseExcitedAlways(intent, emotion) ==
  CASE intent = "greeting" -> greetings
    [] intent = "goodbye" -> goodbyes
    [] intent = "thanks" -> { ThanksReply }
    [] intent = "question" -> { QuestionPrefix \o e : e \in encouragements }
    [] intent = "help" -> { HelpReply }
    [] intent = "conversation" -> BaseResponses \cup ExcitedResponses
    [] OTHER -> confirmations

\* the strings getRandomFromArray can return for this intent and emotion
generateContextualResponse(intent, emotion) ==
  CASE intent = "greeting" -> greetings
    [] intent = "goodbye" -> goodbyes
    [] intent = "thanks" -> { ThanksReply }
    [] intent = "question" -> { QuestionPrefix \o e : e \in encouragements }
    [] intent = "help" -> { HelpReply }
    [] intent = "conversation" ->
         BaseResponses \cup
           (IF emotion = "excited" THEN ExcitedResponses
            ELSE IF emotion = "gentle" THEN GentleResponses
            ELSE IF emotion = "professional" THEN ProfessionalResponses
            ELSE {})
    [] OTHER -> confirmations

\* a variant of the lookup without the default: voiceStyleMap[detectedEmotion]
voiceStyleMapNoDefault(emotion) ==
  IF emotion \in { "excited", "gentle", "professional", "friendly", "neutral", "confident" }
  THEN emotion ELSE "undefined"

voiceStyleMap(emotion) ==
  IF emotion \in { "excited", "gentle", "professional", "friendly", "neutral", "confident" }
  THEN emotion ELSE "friendly"

DidntCatch == "I didn't catch that. Could you please say something?"

\* a variant of generateResponse without the early return for an empty input
generateResponseUnguarded(userInput) ==
  LET detectedEmotion == detectEmotion(userInput)
      intent == detectIntent(userInput)
  IN { [text |-> t, emotion |-> detectedEmotion,
        suggestedVoiceStyle |-> voiceStyleMap(detectedEmotion)] :
       t \in generateContextualResponse(intent, detectedEmotion) }

\* the results generateResponse can return for userInput
generateResponse(userInput) ==
  IF ~Truthy(userInput) \/ Trim(userInput) = <<>>
  THEN { [text |-> DidntCatch, emotion |-> "neutral", suggestedVoiceStyle |-> "friendly"] }
  ELSE LET detectedEmotion == detectEmotion(userInput)
           intent == detectIntent(userInput)
       IN { [text |-> t, emotion |-> detectedEmotion,
             suggestedVoiceStyle |-> voiceStyleMap(detectedEmotion)] :
            t \in generateContextualResponse(intent, detectedEmotion) }

(* ------------------------------ bounds --------------------------------- *)

\* hypothesis events delivered by the transcription source, over a whole run
MaxHyp == 3
\* turns the conversation accepts, over a whole run
MaxTurns == 2
\* listening sessions, over a whole run
MaxSessions == 1
\* classify/respond steps that throw, over a whole run
MaxFaults == 1
MaxStarts == 2
\* milliseconds the clock counts, over a whole run
MaxClock == 2

(* ----------------------------- constants ------------------------------- *)

SilenceMs == 1000
DeferMs == 100
\* the clock of the model ticks once per deferred-submit delay
TickMs == DeferMs
SilenceTicks == SilenceMs \div TickMs
DeferTicks == DeferMs \div TickMs

\* what the transcription source can report as a hypothesis
HypTexts == { <<>>, <<" ">>, <<"h", "e", "l", "p">>, <<"t", "h", "a", "n", "k", "s">> }

\* the ticks between two hypothesis events of a session: none, the deferred-submit
\* delay, half the silence threshold, and the threshold (the hypothesis arrives in
\* the tick in which the timer is due, before or after the timer runs)
HypGaps == { 0, DeferTicks, SilenceTicks \div 2, SilenceTicks }

ApologyText ==
  "I'm sorry, I encountered an issue generating a response. Please try again."

NoTimer == 0

(* ------------------------------- state --------------------------------- *)

VARIABLES
  \* VoiceInput: useState
  isListening, transcript, silenceTimer, permissionStatus, permissionError,
  \* VoiceInput: useRef
  isProcessingRef, latestTranscript,
  \* useSpeechRecognition: the hook's listening flag
  listening,
  \* VoiceConversation: useState
  currentAIResponse, isProcessing, lastProcessedInput, messages, ttsError,
  \* the values the closures of the last committed render captured
  rend,
  \* pending setTimeout callbacks, each with the closure values it captured
  timers, nextTimer,
  \* ticks since the last hypothesis event, capped at SilenceTicks
  quiet,
  \* history: the last turn the endpoint detector finalized, the turns the silence
  \* timer finalized in this listening session, hypothesis events delivered (in
  \* all, in this session), whether the session was stopped by hand or by the
  \* source, turns accepted, faults left to inject, the last call of
  \* handleAnswerRequest
  lastTurn, silenceTurns, hypCount, hypInSession, disturbed, accepted, faultsLeft,
  lastSubmit, sessionsLeft,
  \* configuration: REACT_APP_ELEVENLABS_API_KEY is set, REACT_APP_USE_ELEVENLABS
  \* is not 'false'
  apiKey, useFlag,
  \* which speech component is mounted; the useState of ElevenLabsTTS and of
  \* SimpleTTS; what the last committed render of the component captured; the
  \* pending auto-speak timer
  mounted, el, st, ttsRend, speakTimer,
  \* generateSpeechUrl calls in flight (with their text, and whether handleStop
  \* ran since the call was made); the Audio elements created, by object URL, and
  \* how often each URL was revoked; the utterance of speechSynthesis
  requests, audioState, revokes, utterance,
  \* history: turns accepted since speech last started or failed, the text of the
  \* last remote call that failed, the text last given to speechSynthesis.speak
  inFlight, failedText, localText,
  \* the response generator on its own: the last operation, which is a call of
  \* generateResponse (with the values of its local constants) or a lookup in
  \* voiceStyleMap, and what the call before the last call classified
  call, earlier, lookup,
  \* the ElevenLabsService on its own: its isInitialized flag and its last call of
  \* generateSpeechUrl, with what the network did and what the call returned
  service,
  \* Date.now(): the milliseconds on the clock, counted from the moment the page
  \* was loaded
  now

viVars == << isListening, transcript, silenceTimer, permissionStatus, permissionError,
             isProcessingRef, latestTranscript, listening >>
vcVars == << currentAIResponse, isProcessing, lastProcessedInput, messages, ttsError >>
schedVars == << rend, timers, nextTimer, quiet >>
histVars == << lastTurn, silenceTurns, hypCount, hypInSession, disturbed, accepted,
               faultsLeft, lastSubmit, sessionsLeft, inFlight >>
ttsVars == << apiKey, useFlag, mounted, el, st, ttsRend, speakTimer, requests,
              audioState, revokes, utterance, failedText, localText >>
genVars == << call, earlier, lookup, service, now >>

(* --------------------------- render / closures -------------------------- *)

\* what the functions created by a render of VoiceConversation and VoiceInput read
\* from their scope when they run later
CurEnv ==
  [ silenceTimer |-> silenceTimer, transcript |-> transcript,
    isListening |-> isListening, listening |-> listening,
    isProcessing |-> isProcessing, lastProcessedInput |-> lastProcessedInput,
    permissionStatus |-> permissionStatus, permissionError |-> permissionError ]

Rendered == rend = CurEnv

\* clearTimeout
ClearTimeout(ts, id) == { t \in ts : t.id # id }

(* -------------------------- VoiceConversation -------------------------- *)

\* n.toString() of a number that is not negative: its decimal digits
Digit(d) ==
  CASE d = 0 -> "0" [] d = 1 -> "1" [] d = 2 -> "2" [] d = 3 -> "3" [] d = 4 -> "4"
    [] d = 5 -> "5" [] d = 6 -> "6" [] d = 7 -> "7" [] d = 8 -> "8" [] d = 9 -> "9"

RECURSIVE toString(_)
toString(n) == IF n < 10 THEN << Digit(n) >> ELSE Append(toString(n \div 10), Digit(n % 10))

\* the id addMessage gives to a new message when the clock reads ms:
\* Date.now().toString()
NewId(ms) == toString(ms)

\* a variant of addMessage that puts the new message first: [newMessage, ...prev]
addMessageFirst(prev, message) == << message >> \o prev

\* addMessage: setMessages(prev => [...prev, newMessage])
addMessage(prev, message) == Append(prev, message)

\* the guard of handleAnswerRequest, evaluated on the values its closure captured
Blocked(e, t) == Trim(t) = <<>> \/ e.isProcessing \/ t = e.lastProcessedInput

\* a variant of the lock's release that is skipped when the generator throws, as
\* if setIsProcessing(false) ended the try block
LockAfterTryOnly(threw) == threw

\* the state of the lock when handleAnswerRequest returns (its finally block)
LockAfter(threw) == FALSE

\* handleAnswerRequest(transcript), as created by the render that captured e
HandleAnswerRequest(e, t) ==
  IF Blocked(e, t)
  THEN /\ UNCHANGED << vcVars, accepted, inFlight, faultsLeft >>
       /\ lastSubmit' = "rejected"
  ELSE /\ accepted < MaxTurns
       /\ accepted' = accepted + 1
       /\ inFlight' = inFlight + 1
       /\ lastProcessedInput' = t
       /\ \E threw \in BOOLEAN :
            /\ threw => faultsLeft > 0
            /\ faultsLeft' = IF threw THEN faultsLeft - 1 ELSE faultsLeft
            /\ \E r \in (IF threw THEN { [text |-> ApologyText] } ELSE generateResponse(t)) :
                 /\ messages' =
                      addMessage(
                        addMessage(messages,
                                   [type |-> "user", text |-> t, turn |-> accepted + 1,
                                    id |-> NewId(now)]),
                        [type |-> "ai", text |-> r.text, turn |-> accepted + 1,
                         id |-> NewId(now)])
                 /\ currentAIResponse' = r.text
            /\ isProcessing' = LockAfter(threw)
            /\ lastSubmit' = IF threw THEN "failed" ELSE "answered"
       /\ UNCHANGED ttsError

(* ------------------------------ VoiceInput ----------------------------- *)

\* cleanup(), as created by the render that captured e: the timers left pending
CleanupTimers(ts, e) ==
  IF e.silenceTimer # NoTimer THEN ClearTimeout(ts, e.silenceTimer) ELSE ts

\* cleanup(): the silenceTimer state it leaves
CleanupState(cur, e) == IF e.silenceTimer # NoTimer THEN NoTimer ELSE cur

\* stop() of useSpeechRecognition: a no-op unless listening; otherwise it ends
\* recognition and calls onEnd, which is cleanup() of the last committed render
StopTimers(ts) == IF listening THEN CleanupTimers(ts, rend) ELSE ts
StopState(cur) == IF listening THEN CleanupState(cur, rend) ELSE cur

\* what the callbacks of a timer read from the render that created them
Captured(e) ==
  [ silenceTimer |-> e.silenceTimer, transcript |-> e.transcript,
    isProcessing |-> e.isProcessing, lastProcessedInput |-> e.lastProcessedInput ]

\* the setTimeout(..., 100) that submits the finalized text
DeferTimer(e, t) ==
  [id |-> nextTimer, kind |-> "defer", left |-> DeferTicks, env |-> Captured(e), text |-> t]

\* the setTimeout(..., 1000) of onResult
SilenceTimer(e) ==
  [id |-> nextTimer, kind |-> "silence", left |-> SilenceTicks, env |-> Captured(e),
   text |-> <<>>]

NoTurn == [text |-> <<>>, reason |-> "none", quiet |-> 0, latest |-> <<>>]

\* the record of a finalized turn: its text and reason, the ticks since the last
\* hypothesis, and the latest hypothesis when it was finalized
Finalized(t, reason) ==
  [text |-> t, reason |-> reason, quiet |-> quiet, latest |-> latestTranscript]

\* onResult(result), as created by the last committed render
OnResult ==
  \E result \in HypTexts :
    /\ listening
    /\ hypCount < MaxHyp
    /\ hypInSession > 0 => quiet \in HypGaps
    /\ transcript' = result
    /\ latestTranscript' = result
    /\ timers' = CleanupTimers(timers, rend) \cup { SilenceTimer(rend) }
    /\ silenceTimer' = nextTimer
    /\ nextTimer' = nextTimer + 1
    /\ quiet' = 0
    /\ hypCount' = hypCount + 1
    /\ hypInSession' = hypInSession + 1
    /\ UNCHANGED << isListening, permissionStatus, permissionError, isProcessingRef,
                    listening, vcVars, rend, lastTurn, silenceTurns, disturbed, accepted, inFlight,
                    faultsLeft, lastSubmit, sessionsLeft >>
    /\ UNCHANGED << ttsVars, genVars >>

\* the transcript handleAutoStop works on
TranscriptToUse(e, finalTranscript) ==
  IF Truthy(finalTranscript) THEN finalTranscript ELSE e.transcript

\* handleAutoStop(latestTranscript.current), run by the silence timer tm
HandleAutoStop(tm) ==
  LET e == tm.env
      transcriptToUse == TranscriptToUse(e, latestTranscript)
      rest == timers \ { tm }
  IN IF isProcessingRef
     THEN /\ timers' = rest
          /\ UNCHANGED << viVars, vcVars, rend, nextTimer, quiet, histVars >>
     ELSE /\ IF Trim(transcriptToUse) # <<>>
             THEN /\ isProcessingRef' = TRUE
                  /\ timers' = CleanupTimers(StopTimers(rest \cup { DeferTimer(e, transcriptToUse) }), e)
                  /\ nextTimer' = nextTimer + 1
                  /\ lastTurn' = Finalized(transcriptToUse, "silence")
                  /\ silenceTurns' = silenceTurns + 1
             ELSE /\ isProcessingRef' = FALSE
                  /\ timers' = CleanupTimers(StopTimers(rest), e)
                  /\ UNCHANGED << nextTimer, lastTurn, silenceTurns >>
          /\ silenceTimer' = CleanupState(StopState(silenceTimer), e)
          /\ listening' = FALSE
          /\ isListening' = FALSE
          /\ UNCHANGED << transcript, permissionStatus, permissionError, latestTranscript,
                          currentAIResponse, isProcessing, lastProcessedInput, messages,
                          ttsError, rend, quiet, hypCount, hypInSession, disturbed,
                          accepted, inFlight, faultsLeft, lastSubmit, sessionsLeft >>

FireSilence ==
  /\ \E tm \in timers : tm.kind = "silence" /\ tm.left = 0 /\ HandleAutoStop(tm)
  /\ UNCHANGED << ttsVars, genVars >>

\* the deferred callback: onAnswerRequest(text); isProcessing.current = false
FireDefer ==
  \E tm \in timers :
    /\ tm.kind = "defer" /\ tm.left = 0
    /\ HandleAnswerRequest(tm.env, tm.text)
    /\ isProcessingRef' = FALSE
    /\ timers' = timers \ { tm }
    /\ UNCHANGED << isListening, transcript, silenceTimer, permissionStatus,
                    permissionError, latestTranscript, listening, rend, nextTimer, quiet,
                    lastTurn, silenceTurns, hypCount, hypInSession, disturbed,
                    sessionsLeft >>
    /\ UNCHANGED << ttsVars, genVars >>

\* handleStopListening, the click on the stop button
HandleStopListening ==
  /\ Rendered
  /\ isListening
  /\ LET e == CurEnv
         currentTranscript == IF Truthy(latestTranscript) THEN latestTranscript ELSE transcript
     IN /\ IF ~isProcessingRef /\ Trim(currentTranscript) # <<>>
           THEN /\ isProcessingRef' = TRUE
                /\ timers' = CleanupTimers(StopTimers(timers \cup { DeferTimer(e, currentTranscript) }), e)
                /\ nextTimer' = nextTimer + 1
                /\ lastTurn' = Finalized(currentTranscript, "manual_stop")
           ELSE /\ timers' = CleanupTimers(StopTimers(timers), e)
                /\ UNCHANGED << isProcessingRef, nextTimer, lastTurn >>
        /\ silenceTimer' = CleanupState(StopState(silenceTimer), e)
  /\ listening' = FALSE
  /\ isListening' = FALSE
  /\ disturbed' = TRUE
  /\ UNCHANGED << transcript, permissionStatus, permissionError, latestTranscript,
                  currentAIResponse, isProcessing, lastProcessedInput, messages, ttsError,
                  rend, quiet, silenceTurns, hypCount, hypInSession, accepted, inFlight, faultsLeft,
                  lastSubmit, sessionsLeft >>
  /\ UNCHANGED << ttsVars, genVars >>

\* a variant of the permission check that never finds the permission denied
PermissionNeverDenied(e) == FALSE

\* handleStartListening: permissionStatus === 'denied', as render e holds it
PermissionDenied(e) == e.permissionStatus = "denied"

\* handleStartListening, the click on the microphone button
HandleStartListening ==
  /\ Rendered
  /\ ~isListening
  /\ ~PermissionDenied(rend)
  /\ sessionsLeft > 0
  /\ sessionsLeft' = sessionsLeft - 1
  /\ transcript' = <<>>
  /\ permissionError' = ""
  /\ isProcessingRef' = FALSE
  /\ latestTranscript' = <<>>
  /\ listening' = TRUE
  /\ isListening' = TRUE
  /\ permissionStatus' = "granted"
  /\ silenceTurns' = 0
  /\ hypInSession' = 0
  /\ disturbed' = FALSE
  /\ UNCHANGED << silenceTimer, vcVars, schedVars, lastTurn, hypCount, accepted, inFlight,
                  faultsLeft, lastSubmit >>
  /\ UNCHANGED << ttsVars, genVars >>

\* VoiceInput.handleAnswerRequest, the click on the Answer button
ClickAnswer ==
  /\ Rendered
  /\ Truthy(transcript)
  /\ IF Trim(transcript) # <<>>
     THEN HandleAnswerRequest(CurEnv, transcript)
     ELSE UNCHANGED << vcVars, accepted, inFlight, faultsLeft, lastSubmit >>
  /\ UNCHANGED << viVars, schedVars, lastTurn, silenceTurns, hypCount, hypInSession,
                  disturbed, sessionsLeft >>
  /\ UNCHANGED << ttsVars, genVars >>

\* clearTranscript, the click on the Clear button
ClearTranscript ==
  /\ Rendered
  /\ Truthy(transcript)
  /\ transcript' = <<>>
  /\ UNCHANGED << isListening, silenceTimer, permissionStatus, permissionError,
                  isProcessingRef, latestTranscript, listening, currentAIResponse,
                  isProcessing, lastProcessedInput, messages, ttsError, schedVars,
                  histVars >>
  /\ UNCHANGED << ttsVars, genVars >>

DeniedMessage == "Microphone access denied. Please allow microphone access and try again."
RefreshMessage ==
  "Microphone access denied. Please allow microphone access and refresh the page."
UnableMessage == "Unable to access microphone. Please check your browser settings."
SettingsMessage ==
  "Microphone access denied. Please allow microphone access in your browser settings."

\* what the permission actions leave alone
permissionFrame == << isListening, transcript, silenceTimer, isProcessingRef,
                      latestTranscript, listening, vcVars, schedVars, histVars, ttsVars,
                      genVars >>

\* requestMicrophonePermission, the click on the Request Microphone Access
\* button, which is shown while the permission is denied: getUserMedia resolves,
\* or rejects with NotAllowedError or with another error
RequestMicrophonePermission ==
  \E outcome \in { "granted", "NotAllowedError", "NotFoundError" } :
    /\ Rendered
    /\ PermissionDenied(rend)
    /\ permissionStatus' = IF outcome = "granted" THEN "granted" ELSE "denied"
    /\ permissionError' = IF outcome = "granted" THEN ""
                          ELSE IF outcome = "NotAllowedError" THEN RefreshMessage
                          ELSE UnableMessage
    /\ UNCHANGED permissionFrame

\* the change listener of the Permissions API: the user changed the microphone
\* permission of the page in the browser
PermissionChange ==
  \E state \in { "prompt", "granted", "denied" } :
    /\ mounted # "gone"
    /\ permissionStatus' = state
    /\ permissionError' = IF state = "denied" THEN SettingsMessage
                          ELSE IF state = "granted" THEN ""
                          ELSE permissionError
    /\ UNCHANGED permissionFrame

\* onError(error), as created by the last committed render
OnError ==
  \E error \in { "not-allowed", "network" } :
    /\ listening
    /\ IF error = "not-allowed"
       THEN permissionStatus' = "denied" /\ permissionError' = DeniedMessage
       ELSE UNCHANGED << permissionStatus, permissionError >>
    /\ isListening' = FALSE
    /\ timers' = CleanupTimers(timers, rend)
    /\ silenceTimer' = CleanupState(silenceTimer, rend)
    /\ listening' = FALSE
    /\ disturbed' = TRUE
    /\ UNCHANGED << transcript, isProcessingRef, latestTranscript, vcVars, rend,
                    nextTimer, quiet, lastTurn, silenceTurns, hypCount, hypInSession,
                    accepted, inFlight, faultsLeft, lastSubmit, sessionsLeft >>
    /\ UNCHANGED << ttsVars, genVars >>

\* onEnd(), as created by the last committed render
OnEnd ==
  /\ listening
  /\ isListening' = FALSE
  /\ timers' = CleanupTimers(timers, rend)
  /\ silenceTimer' = CleanupState(silenceTimer, rend)
  /\ listening' = FALSE
  /\ disturbed' = TRUE
  /\ UNCHANGED << transcript, permissionStatus, permissionError, isProcessingRef,
                  latestTranscript, vcVars, rend, nextTimer, quiet, lastTurn,
                  silenceTurns, hypCount, hypInSession, accepted, inFlight, faultsLeft, lastSubmit,
                  sessionsLeft >>
  /\ UNCHANGED << ttsVars, genVars >>

\* a commit of pending state updates: the closures are created anew, the cleanup
\* of the [silenceTimer] effect runs with the value of the previous render, and
\* the [listening] effect copies the hook's flag into isListening
Render ==
  /\ mounted # "gone"
  /\ ~Rendered
  /\ rend' = CurEnv
  /\ timers' = IF rend.silenceTimer # silenceTimer
               THEN CleanupTimers(timers, rend) ELSE timers
  /\ isListening' = IF rend.listening # listening THEN listening ELSE isListening
  /\ UNCHANGED << transcript, silenceTimer, permissionStatus, permissionError,
                  isProcessingRef, latestTranscript, listening, vcVars, nextTimer, quiet,
                  histVars >>
  /\ UNCHANGED << ttsVars, genVars >>

Min(a, b) == IF a < b THEN a ELSE b

\* TickMs pass: React has committed, and every timer that was due has run
Tick ==
  /\ Rendered
  /\ timers # {}
  /\ \A t \in timers : t.left > 0
  /\ timers' = { [t EXCEPT !.left = @ - 1] : t \in timers }
  /\ quiet' = Min(quiet + 1, SilenceTicks)
  /\ UNCHANGED << viVars, vcVars, rend, nextTimer, histVars >>
  /\ UNCHANGED << ttsVars, genVars >>

(* ------------------------- speech components --------------------------- *)

\* a variant of useElevenLabs that does not look at the API key
useElevenLabsByFlag == useFlag

\* VoiceConversation: useElevenLabs
useElevenLabs == useFlag /\ apiKey

\* the isMobile prop of the speech components, which VoiceConversation does not
\* pass: its default
isMobile == FALSE

\* the autoSpeak prop VoiceConversation passes
autoSpeak == TRUE

\* the hideText prop VoiceConversation passes in its desktop layout
hideText == FALSE

NoAudio == 0
\* useState<ElevenLabsPresetKey>('rachel_casual')
DefaultPreset == "rachel_casual"
NoSpeak == [text |-> "", service |-> FALSE, currentAudio |-> NoAudio, preset |-> DefaultPreset]

\* the messages of ElevenLabsTTS
NoKeyMessage ==
  "ElevenLabs API key not provided. Please add your API key to use high-quality TTS."
NotInitializedMessage == "ElevenLabs service not initialized. Please provide an API key."
NotInitializedNotice == "ElevenLabs service not initialized"
GenerateFailedMessage == "Failed to generate speech with ElevenLabs"
PlaybackFailedMessage == "Failed to play generated audio"
PlaybackFailedNotice == "Audio playback failed"
TapMessage == "Tap to enable audio playback"

\* the useState initial values of ElevenLabsTTS and of SimpleTTS
ElInit ==
  [ isSpeaking |-> FALSE, isLoading |-> FALSE, lastSpokenText |-> "", error |-> "",
    elevenLabsService |-> FALSE, currentAudio |-> NoAudio,
    needsUserInteraction |-> FALSE, selectedPreset |-> DefaultPreset ]
StInit == [ isSpeaking |-> FALSE, lastSpokenText |-> "", needsUserInteraction |-> isMobile ]

\* what a render of the mounted speech component sees
TTSCur == [ text |-> currentAIResponse, el |-> el, st |-> st ]

\* a variant of the auto-speak condition that does not wait for the current
\* session to finish
ElevenAutoSpeakEager(r) ==
  /\ autoSpeak /\ r.text # "" /\ r.text # r.el.lastSpokenText
  /\ r.el.elevenLabsService /\ r.el.error = ""

\* the condition of the auto-speak effect of ElevenLabsTTS (desktop branch; the
\* mobile branch needs isMobile)
ElevenAutoSpeak(r) ==
  \/ /\ ~isMobile /\ autoSpeak /\ r.text # "" /\ r.text # r.el.lastSpokenText
     /\ ~r.el.isSpeaking /\ ~r.el.isLoading /\ r.el.elevenLabsService
     /\ r.el.error = ""
  \/ /\ isMobile /\ autoSpeak /\ r.text # "" /\ r.text # r.el.lastSpokenText
     /\ ~r.el.needsUserInteraction

\* the condition of the auto-speak effect of SimpleTTS
SimpleAutoSpeak(r) ==
  /\ autoSpeak /\ r.text # "" /\ r.text # r.st.lastSpokenText /\ ~r.st.isSpeaking
  /\ (~isMobile \/ ~r.st.needsUserInteraction)

\* the timer the auto-speak effect of render r leaves pending: its callback holds
\* the handleSpeak of that render
AutoSpeakTimer(kind, r) ==
  IF (kind = "eleven" /\ ElevenAutoSpeak(r)) \/ (kind = "simple" /\ SimpleAutoSpeak(r))
  THEN [ text |-> r.text, service |-> r.el.elevenLabsService,
         currentAudio |-> r.el.currentAudio, preset |-> r.el.selectedPreset ]
  ELSE NoSpeak

\* audio.pause(): an element that is loading or playing stops; others stay
Pause(as, a) ==
  IF a # NoAudio /\ as[a] \in { "loading", "playing" }
  THEN [as EXCEPT ![a] = "paused"] ELSE as

\* URL.revokeObjectURL(url)
RevokeObjectURL(rv, a) == [rv EXCEPT ![a] = @ + 1]

\* the cleanup of the [currentAudio] effect, for the element the effect captured
AudioCleanupState(as, a) == IF a # NoAudio THEN Pause(as, a) ELSE as
AudioCleanupRevokes(rv, a) == IF a # NoAudio THEN RevokeObjectURL(rv, a) ELSE rv

\* a message the browser gives when an Audio element cannot load its source
PlayRejectedMessage == "The element has no supported sources."

\* everything but the speech components and the notice they raise
restVars == << viVars, schedVars, currentAIResponse, isProcessing, lastProcessedInput,
               messages, lastTurn, silenceTurns, hypCount, hypInSession, disturbed,
               accepted, faultsLeft, lastSubmit, sessionsLeft, genVars >>

\* a commit of the mounted speech component, or its mount once there is a response
\* to show: the init effect of ElevenLabsTTS, the cleanup of its [currentAudio]
\* effect for the element of the previous render, and the auto-speak effect
RenderTTS ==
  /\ mounted # "gone"
  /\ IF mounted = "none"
     THEN /\ currentAIResponse # ""
          /\ mounted' = IF useElevenLabs THEN "eleven" ELSE "simple"
          /\ speakTimer' = AutoSpeakTimer(mounted', TTSCur)
          /\ el' = IF useElevenLabs
                   THEN IF apiKey
                        THEN [el EXCEPT !.elevenLabsService = TRUE, !.error = ""]
                        ELSE [el EXCEPT !.error = NoKeyMessage]
                   ELSE el
          /\ UNCHANGED << audioState, revokes >>
     ELSE /\ ttsRend # TTSCur
          /\ speakTimer' = AutoSpeakTimer(mounted, TTSCur)
          /\ IF ttsRend.el.currentAudio # el.currentAudio
             THEN /\ audioState' = AudioCleanupState(audioState, ttsRend.el.currentAudio)
                  /\ revokes' = AudioCleanupRevokes(revokes, ttsRend.el.currentAudio)
             ELSE UNCHANGED << audioState, revokes >>
          /\ UNCHANGED << mounted, el >>
  /\ ttsRend' = TTSCur
  /\ UNCHANGED << apiKey, useFlag, st, requests, utterance, failedText, localText,
                  restVars, ttsError, inFlight >>

\* ElevenLabsTTS: setLastSpokenText(text); handleSpeak() of the render that set
\* the timer, up to the call of generateSpeechUrl
ElevenSpeak(env) ==
  IF env.text = ""
  THEN /\ el' = [el EXCEPT !.lastSpokenText = env.text]
       /\ UNCHANGED << audioState, requests, ttsError, inFlight >>
  ELSE IF ~env.service
  THEN /\ el' = [el EXCEPT !.lastSpokenText = env.text, !.error = NotInitializedMessage]
       /\ ttsError' = NotInitializedNotice
       /\ inFlight' = 0
       /\ UNCHANGED << audioState, requests >>
  ELSE /\ audioState' = Pause(audioState, env.currentAudio)
       /\ el' = [el EXCEPT !.lastSpokenText = env.text, !.isLoading = TRUE, !.error = ""]
       /\ requests' = requests \cup { [text |-> env.text, stopped |-> FALSE,
                                            preset |-> env.preset] }
       /\ UNCHANGED << ttsError, inFlight >>

\* SimpleTTS: setLastSpokenText(text); handleSpeak(): speechSynthesis.cancel()
\* ends the current utterance, speechSynthesis.speak queues the new one
SimpleSpeak(env) ==
  IF env.text = ""
  THEN /\ st' = [st EXCEPT !.lastSpokenText = env.text]
       /\ UNCHANGED << utterance, localText >>
  ELSE /\ st' = [st EXCEPT !.lastSpokenText = env.text,
                           !.isSpeaking = IF utterance \in { "none", "rejected" }
                                           THEN @ ELSE FALSE]
       /\ utterance' = "pending"
       /\ localText' = env.text

\* the callback of the auto-speak timer
FireSpeak ==
  /\ speakTimer # NoSpeak
  /\ speakTimer' = NoSpeak
  /\ IF mounted = "eleven"
     THEN /\ ElevenSpeak(speakTimer)
          /\ UNCHANGED << st, utterance, localText >>
     ELSE /\ mounted = "simple"
          /\ SimpleSpeak(speakTimer)
          /\ UNCHANGED << el, audioState, requests, ttsError, inFlight >>
  /\ UNCHANGED << apiKey, useFlag, mounted, ttsRend, revokes, failedText, restVars >>

\* what the actions on a generateSpeechUrl call or an Audio element leave alone;
\* the promise and the element outlive the component, so their callbacks also run
\* after the unmount (mounted = "gone"), when nothing reads the state they set
audioFrame == << apiKey, useFlag, mounted, st, ttsRend, speakTimer, utterance, localText,
                 restVars >>

\* generateSpeechUrl resolves: URL.createObjectURL, new Audio(audioUrl),
\* setCurrentAudio(audio), audio.play(); the element starts to load
GenerateOk ==
  \E r \in requests :
    /\ mounted \in { "eleven", "gone" }
    /\ requests' = requests \ { r }
    /\ audioState' = Append(audioState, "loading")
    /\ revokes' = Append(revokes, 0)
    /\ el' = [el EXCEPT !.currentAudio = Len(audioState) + 1, !.isLoading = TRUE]
    /\ UNCHANGED << ttsError, failedText, inFlight, audioFrame >>

\* generateSpeechUrl rejects (network error or a response that is not ok): the
\* catch block of handleSpeak
GenerateFail ==
  \E r \in requests :
    /\ mounted \in { "eleven", "gone" }
    /\ requests' = requests \ { r }
    /\ el' = [el EXCEPT !.error = GenerateFailedMessage, !.isSpeaking = FALSE,
                        !.isLoading = FALSE]
    /\ ttsError' = GenerateFailedMessage
    /\ failedText' = r.text
    /\ inFlight' = 0
    /\ UNCHANGED << audioState, revokes, audioFrame >>

\* audio.oncanplay
AudioCanPlay ==
  \E a \in DOMAIN audioState :
    /\ mounted \in { "eleven", "gone" }
    /\ audioState[a] \in { "loading", "blocked" }
    /\ audioState' = [audioState EXCEPT ![a] = IF @ = "loading" THEN "playing" ELSE "stalled"]
    /\ el' = [el EXCEPT !.isLoading = FALSE, !.isSpeaking = TRUE]
    /\ inFlight' = IF audioState[a] = "loading" THEN 0 ELSE inFlight
    /\ UNCHANGED << requests, revokes, ttsError, failedText, audioFrame >>

\* audio.onended
AudioEnded ==
  \E a \in DOMAIN audioState :
    /\ mounted \in { "eleven", "gone" }
    /\ audioState[a] = "playing"
    /\ audioState' = [audioState EXCEPT ![a] = "ended"]
    /\ el' = [el EXCEPT !.isSpeaking = FALSE, !.isLoading = FALSE]
    /\ revokes' = RevokeObjectURL(revokes, a)
    /\ UNCHANGED << requests, ttsError, failedText, inFlight, audioFrame >>

\* audio.onerror; while the element loads, play() rejects as well and the catch
\* block of handleSpeak runs after the handler
AudioError ==
  \E a \in DOMAIN audioState :
    /\ mounted \in { "eleven", "gone" }
    /\ audioState[a] \in { "loading", "playing" }
    /\ audioState' = [audioState EXCEPT ![a] = "error"]
    /\ el' = [el EXCEPT !.error = IF audioState[a] = "loading"
                                  THEN PlayRejectedMessage ELSE PlaybackFailedMessage,
                        !.isSpeaking = FALSE, !.isLoading = FALSE]
    /\ ttsError' = IF audioState[a] = "loading"
                   THEN PlayRejectedMessage ELSE PlaybackFailedNotice
    /\ revokes' = RevokeObjectURL(revokes, a)
    /\ inFlight' = 0
    /\ UNCHANGED << requests, failedText, audioFrame >>

\* audio.play() rejects with NotAllowedError (autoplay policy)
PlayBlocked ==
  \E a \in DOMAIN audioState :
    /\ mounted \in { "eleven", "gone" }
    /\ audioState[a] = "loading"
    /\ audioState' = [audioState EXCEPT ![a] = "blocked"]
    /\ el' = [el EXCEPT !.needsUserInteraction = TRUE, !.error = TapMessage,
                        !.isLoading = FALSE]
    /\ inFlight' = 0
    /\ UNCHANGED << requests, revokes, ttsError, failedText, audioFrame >>

\* what the actions on the utterance of SimpleTTS leave alone
utteranceFrame == << apiKey, useFlag, mounted, el, ttsRend, speakTimer, requests,
                     audioState, revokes, failedText, localText, ttsError, restVars >>

\* utterance.onstart
UtteranceStart ==
  /\ mounted \in { "simple", "gone" }
  /\ utterance = "pending"
  /\ utterance' = "speaking"
  /\ st' = [st EXCEPT !.isSpeaking = TRUE, !.needsUserInteraction = FALSE]
  /\ inFlight' = 0
  /\ UNCHANGED utteranceFrame

\* utterance.onend
UtteranceEnd ==
  /\ mounted \in { "simple", "gone" }
  /\ utterance = "speaking"
  /\ utterance' = "none"
  /\ st' = [st EXCEPT !.isSpeaking = FALSE]
  /\ UNCHANGED << inFlight, utteranceFrame >>

\* utterance.onerror; the error is 'not-allowed' when the browser refuses to
\* start the utterance without a user gesture
UtteranceError ==
  \E notAllowed \in BOOLEAN :
    /\ mounted \in { "simple", "gone" }
    /\ utterance \in { "pending", "speaking" }
    /\ notAllowed => utterance = "pending"
    /\ utterance' = IF notAllowed THEN "rejected" ELSE "none"
    /\ st' = [st EXCEPT !.isSpeaking = FALSE,
                        !.needsUserInteraction = IF isMobile /\ notAllowed THEN TRUE ELSE @]
    /\ inFlight' = 0
    /\ UNCHANGED utteranceFrame

\* the component tree is unmounted: the cleanup of the auto-speak effect, of the
\* [currentAudio] effect and of the [silenceTimer] effect of VoiceInput
Unmount ==
  /\ mounted \in { "eleven", "simple" }
  /\ mounted' = "gone"
  /\ speakTimer' = NoSpeak
  /\ audioState' = AudioCleanupState(audioState, ttsRend.el.currentAudio)
  /\ revokes' = AudioCleanupRevokes(revokes, ttsRend.el.currentAudio)
  /\ timers' = CleanupTimers(timers, rend)
  /\ UNCHANGED << apiKey, useFlag, el, st, ttsRend, requests, utterance, failedText,
                  localText, viVars, vcVars, rend, nextTimer, quiet, histVars,
                  genVars >>

\* ElevenLabsTTS.handleStop of the last committed render is called
HandleStop ==
  /\ mounted = "eleven"
  /\ audioState' = Pause(audioState, ttsRend.el.currentAudio)
  /\ el' = [el EXCEPT !.isSpeaking = FALSE, !.isLoading = FALSE]
  /\ requests' = { [r EXCEPT !.stopped = TRUE] : r \in requests }
  /\ UNCHANGED << revokes, ttsError, failedText, inFlight, audioFrame >>

\* VoiceInput calls onAnswerRequest(text): the handleAnswerRequest of the last
\* committed render of VoiceConversation
SubmitTurn ==
  /\ mounted # "gone"
  /\ \E t \in HypTexts : HandleAnswerRequest(rend, t)
  /\ UNCHANGED << viVars, schedVars, lastTurn, silenceTurns, hypCount, hypInSession,
                  disturbed, sessionsLeft, ttsVars, genVars >>

(* --------------------- the response generator on its own --------------- *)

\* what is said to the generator: nothing, a blank, the greeting of Scenario A,
\* the sentence of Scenario C, and inputs with the keywords of one or of two
\* categories
UserInputs ==
  { <<>>,
    <<" ">>,
    <<"H", "e", "l", "l", "o">>,
    <<"I", "'", "m", " ", "s", "o", " ", "e", "x", "c", "i", "t", "e", "d", " ", "a", "b", "o", "u", "t", " ", "t", "h", "i", "s", "!">>,
    <<"h", "a", "p", "p", "y", " ", "s", "a", "d">>,
    <<"s", "a", "d", " ", "w", "o", "r", "k">>,
    <<"w", "o", "r", "k", " ", "c", "h", "a", "t">>,
    <<"t", "a", "l", "k">>,
    <<"o", "k">>,
    <<"t", "h", "i", "s">>,
    <<"h", "i">>,
    <<"h", "e", "l", "l", "o", " ", "b", "y", "e">>,
    <<"b", "y", "e", " ", "t", "h", "a", "n", "k", "s">>,
    <<"t", "h", "a", "n", "k", "s", "?">>,
    <<"w", "h", "y", " ", "h", "e", "l", "p">>,
    <<"h", "e", "l", "p">> }

\* context.conversationHistory: the texts of the messages so far
Histories == { <<>>, << <<"s", "a", "d">>, <<"o", "k">> >> }

\* the emotion values a voice style can be asked for: the five that detectEmotion
\* returns, one more that voiceStyleMap lists, and one that it does not list
EmotionValues ==
  { "excited", "gentle", "professional", "friendly", "neutral", "confident", "angry" }

NoCall == [made |-> FALSE]
NoLookup == [made |-> FALSE]

RECURSIVE Joined(_)
Joined(texts) == IF texts = <<>> THEN <<>> ELSE Head(texts) \o Joined(Tail(texts))

\* a variant of the generator that classifies the input together with the
\* conversation so far
generateResponseInContext(context) ==
  generateResponse(Joined(context.conversationHistory) \o context.userInput)

\* generateResponse(context): context.conversationHistory is not read
generateResponseFor(context) == generateResponse(context.userInput)

\* the local constants detectedEmotion and intent of a call of generateResponse;
\* neither is computed when the call returns early
Locals(userInput) ==
  IF ~Truthy(userInput) \/ Trim(userInput) = <<>>
  THEN [detectedEmotion |-> "unset", intent |-> "unset"]
  ELSE [detectedEmotion |-> detectEmotion(userInput), intent |-> detectIntent(userInput)]

\* what is kept of the call before the last one
Summary(c) ==
  IF c = NoCall THEN NoCall
  ELSE [made |-> TRUE, userInput |-> c.context.userInput,
        conversationHistory |-> c.context.conversationHistory, intent |-> c.intent,
        emotion |-> c.result.emotion,
        suggestedVoiceStyle |-> c.result.suggestedVoiceStyle]

generatorFrame == << viVars, vcVars, schedVars, histVars, ttsVars, now >>

Contexts == [userInput : UserInputs, conversationHistory : Histories]

\* what a call of generateResponse(context) can leave behind: the context, the
\* local constants and one of the results
Outcomes ==
  [context \in Contexts |->
     { [made |-> TRUE, context |-> context,
        detectedEmotion |-> Locals(context.userInput).detectedEmotion,
        intent |-> Locals(context.userInput).intent, result |-> result] :
       result \in generateResponseFor(context) }]

\* responseGenerator.generateResponse(context) is called
GenerateResponse ==
  \E context \in Contexts :
    \E outcome \in Outcomes[context] :
      /\ call' = outcome
      /\ earlier' = Summary(call)
      /\ lookup' = NoLookup
      /\ UNCHANGED << generatorFrame, service >>

\* the table of voice styles is consulted: voiceStyleMap[emotion] || 'friendly'
LookupVoiceStyle ==
  \E emotion \in EmotionValues :
    /\ lookup' = [made |-> TRUE, emotion |-> emotion,
                  suggestedVoiceStyle |-> voiceStyleMap(emotion)]
    /\ call' = NoCall
    /\ earlier' = NoCall
    /\ UNCHANGED << generatorFrame, service >>

(* ---------------------- the remote provider on its own ----------------- *)

\* the HTTP statuses the text-to-speech endpoint answers with
Statuses == { 200, 201, 400, 401, 422, 429, 500 }

\* `${response.status}`
StatusString(status) ==
  CASE status = 200 -> "200" [] status = 201 -> "201" [] status = 400 -> "400"
    [] status = 401 -> "401" [] status = 422 -> "422" [] status = 429 -> "429"
    [] status = 500 -> "500"

\* response.statusText
StatusText(status) ==
  CASE status = 200 -> "OK" [] status = 201 -> "Created" [] status = 400 -> "Bad Request"
    [] status = 401 -> "Unauthorized" [] status = 422 -> "Unprocessable Entity"
    [] status = 429 -> "Too Many Requests" [] status = 500 -> "Internal Server Error"

\* response.ok: the status is in the range 200-299
ResponseOk(status) == status >= 200 /\ status <= 299

\* what the network does with the request: fetch rejects (no connection, CORS,
\* the request was aborted), or it resolves with a response whose body can be
\* read to its end or breaks off while it is read
NetworkOutcomes ==
  { [responded |-> FALSE] }
    \cup { [responded |-> TRUE, status |-> status, bodyReads |-> b] :
             status \in Statuses, b \in BOOLEAN }

\* the error fetch rejects with, and the error response.arrayBuffer() rejects with
FetchError == [name |-> "TypeError", message |-> << "Failed to fetch" >>]
BodyError == [name |-> "TypeError", message |-> << "network error" >>]

\* new Error(`TTS request failed: ${response.status} ${response.statusText}`)
RequestFailed(status) ==
  [name |-> "Error",
   message |-> << "TTS request failed: ", StatusString(status), " ", StatusText(status) >>]

\* the texts and the voices the speech component asks for: the voices of the
\* presets rachel_casual, sarah_professional and brian_narrator
SpeechTexts == { "You're very welcome! I'm glad I could help you.", DidntCatch, ApologyText }
VoiceIds == { "21m00Tcm4TlvDq8ikWAM", "EXAVITQu4vr4xnSDxMaL", "nPczCjzI2devNBz1zQrb" }

\* a variant of generateSpeech without the test of response.ok: the body of
\* every response is returned
generateSpeechUnchecked(text, voice_id, net) ==
  IF ~net.responded THEN [threw |-> TRUE, error |-> FetchError]
  ELSE IF ~net.bodyReads THEN [threw |-> TRUE, error |-> BodyError]
  ELSE [threw |-> FALSE, bytes |-> << text, voice_id >>]

\* generateSpeech(text, options), when the network does net: the audio bytes, or
\* the error that is thrown again by the catch block
generateSpeech(text, voice_id, net) ==
  IF ~net.responded THEN [threw |-> TRUE, error |-> FetchError]
  ELSE IF ~ResponseOk(net.status) THEN [threw |-> TRUE, error |-> RequestFailed(net.status)]
  ELSE IF ~net.bodyReads THEN [threw |-> TRUE, error |-> BodyError]
  ELSE [threw |-> FALSE, bytes |-> << text, voice_id >>]

\* generateSpeechUrl(text, options): the object URL of a Blob of the audio bytes;
\* created tells whether URL.createObjectURL was called
generateSpeechUrl(text, voice_id, net) ==
  LET audioBuffer == generateSpeech(text, voice_id, net)
  IN IF audioBuffer.threw
     THEN [threw |-> TRUE, error |-> audioBuffer.error, created |-> FALSE]
     ELSE [threw |-> FALSE, url |-> << "blob:", audioBuffer.bytes >>, created |-> TRUE]

NoService == [isInitialized |-> FALSE, made |-> FALSE]

serviceFrame == << generatorFrame, call, earlier, lookup >>

\* elevenLabsService.initialize(): it never throws, whether the voices load or not
Initialize ==
  /\ ~service.isInitialized
  /\ service' = [service EXCEPT !.isInitialized = TRUE]
  /\ UNCHANGED serviceFrame

\* elevenLabsService.generateSpeechUrl(text, options) is called and settles
GenerateSpeechUrl ==
  \E text \in SpeechTexts, voice_id \in VoiceIds, net \in NetworkOutcomes :
    /\ service' = [isInitialized |-> TRUE, made |-> TRUE, text |-> text,
                   voice_id |-> voice_id, net |-> net,
                   result |-> generateSpeechUrl(text, voice_id, net)]
    /\ UNCHANGED serviceFrame

(* --------------------------- specifications ---------------------------- *)

vars == << viVars, vcVars, schedVars, histVars, ttsVars, genVars >>

InitCore ==
  /\ isListening = FALSE /\ transcript = <<>> /\ silenceTimer = NoTimer
  /\ permissionStatus = "prompt" /\ permissionError = ""
  /\ isProcessingRef = FALSE /\ latestTranscript = <<>>
  /\ listening = FALSE
  /\ currentAIResponse = "" /\ isProcessing = FALSE /\ lastProcessedInput = <<>>
  /\ messages = <<>> /\ ttsError = ""
  /\ rend = [ silenceTimer |-> NoTimer, transcript |-> <<>>, isListening |-> FALSE,
              listening |-> FALSE, isProcessing |-> FALSE, lastProcessedInput |-> <<>>,
              permissionStatus |-> "prompt", permissionError |-> "" ]
  /\ timers = {} /\ nextTimer = 1 /\ quiet = 0
  /\ lastTurn = NoTurn /\ silenceTurns = 0 /\ hypInSession = 0
  /\ disturbed = FALSE /\ accepted = 0
  /\ lastSubmit = "none"
  /\ mounted = "none" /\ el = ElInit /\ st = StInit
  /\ ttsRend = [ text |-> "", el |-> ElInit, st |-> StInit ]
  /\ speakTimer = NoSpeak /\ requests = {} /\ audioState = <<>> /\ revokes = <<>>
  /\ utterance = "none" /\ inFlight = 0 /\ failedText = "" /\ localText = ""
  /\ call = NoCall /\ earlier = NoCall /\ lookup = NoLookup
  /\ service = NoService
  /\ now = 0

\* the application configured with an API key, and a response generator that
\* does not throw
Init ==
  /\ InitCore
  /\ sessionsLeft = MaxSessions /\ hypCount = 0
  /\ faultsLeft = 0
  /\ apiKey = TRUE /\ useFlag = TRUE

\* any configuration, and a response generator that may throw MaxFaults times
InitSpeak ==
  /\ InitCore
  /\ sessionsLeft = MaxSessions /\ hypCount = 0
  /\ faultsLeft = MaxFaults
  /\ apiKey \in BOOLEAN /\ useFlag \in BOOLEAN

\* the endpoint detector: the transcription source, the timers and the stop button
NextEndpoint ==
  \/ HandleStartListening
  \/ OnResult
  \/ OnError
  \/ OnEnd
  \/ FireSilence
  \/ FireDefer
  \/ HandleStopListening
  \/ Render
  \/ Tick

SpecEndpoint == Init /\ [][NextEndpoint]_vars

\* the endpoint detector with the Answer and Clear buttons of VoiceInput
NextSubmit ==
  \/ NextEndpoint
  \/ ClickAnswer
  \/ ClearTranscript

SpecSubmit == Init /\ [][NextSubmit]_vars

\* the application with room for MaxStarts listening sessions and for one
\* hypothesis event
InitPermission ==
  /\ InitCore
  /\ sessionsLeft = MaxStarts /\ hypCount = MaxHyp - 1
  /\ faultsLeft = 0
  /\ apiKey = TRUE /\ useFlag = TRUE

\* the endpoint detector with the microphone permission: the re-request button
\* and the permission changes the browser reports
NextPermission ==
  \/ NextEndpoint
  \/ RequestMicrophonePermission
  \/ PermissionChange

SpecPermission == InitPermission /\ [][NextPermission]_vars

\* VoiceConversation with its speech component: turns are submitted as VoiceInput
\* submits them
NextSpeak ==
  \/ SubmitTurn
  \/ Render
  \/ RenderTTS
  \/ FireSpeak
  \/ GenerateOk
  \/ GenerateFail
  \/ AudioCanPlay
  \/ AudioEnded
  \/ AudioError
  \/ PlayBlocked
  \/ UtteranceStart
  \/ UtteranceEnd
  \/ UtteranceError
  \/ Unmount

SpecSpeak == InitSpeak /\ [][NextSpeak]_vars

\* the speech component with its handleStop called at any moment
NextStop ==
  \/ NextSpeak
  \/ HandleStop

SpecStop == InitSpeak /\ [][NextStop]_vars

\* two wordings of the same request: the generator answers both with ThanksReply
ThanksTexts == { <<"t", "h", "a", "n", "k", "s">>, <<"t", "h", "a", "n", "k">> }

\* VoiceInput calls the onAnswerRequest of a render that is up to date
SubmitThanks ==
  /\ mounted # "gone"
  /\ Rendered
  /\ \E t \in ThanksTexts : HandleAnswerRequest(rend, t)
  /\ UNCHANGED << viVars, schedVars, lastTurn, silenceTurns, hypCount, hypInSession,
                  disturbed, sessionsLeft, ttsVars, genVars >>

\* the conversation and its speech component, the user thanking in two wordings
NextThanks ==
  \/ SubmitThanks
  \/ Render
  \/ RenderTTS
  \/ FireSpeak
  \/ GenerateOk
  \/ GenerateFail
  \/ AudioCanPlay
  \/ AudioEnded
  \/ AudioError
  \/ PlayBlocked
  \/ UtteranceStart
  \/ UtteranceEnd
  \/ UtteranceError
  \/ Unmount

SpecThanks == InitSpeak /\ [][NextThanks]_vars

\* the response generator called on its own, apart from the application
NextRespond ==
  \/ GenerateResponse
  \/ LookupVoiceStyle

SpecRespond == Init /\ [][NextRespond]_vars

\* a millisecond passes
ClockMs ==
  /\ now < MaxClock
  /\ now' = now + 1
  /\ UNCHANGED << viVars, vcVars, schedVars, histVars, ttsVars, call, earlier, lookup,
                  service >>

\* the conversation component and the clock its message ids are read from
NextIds ==
  \/ SubmitTurn
  \/ Render
  \/ ClockMs

SpecIds == InitSpeak /\ [][NextIds]_vars

\* the remote provider called on its own, apart from the application
NextService ==
  \/ Initialize
  \/ GenerateSpeechUrl

SpecService == Init /\ [][NextService]_vars

(* ------------------------------- claims -------------------------------- *)

\* every silence timer that is due has run
TimersRan == \A t \in timers : ~(t.kind = "silence" /\ t.left = 0)

\* C1: in a session that no recognition error or spontaneous end disturbs, a run
\* of hypothesis events followed by a quiet gap of the silence threshold makes the
\* silence timer finalize exactly one turn (never two, and one once the gap has
\* passed), whose text is the latest hypothesis (a non-blank one) as read when the
\* timer runs
C1_ExactlyOneTurnPerGap ==
  /\ (~disturbed => silenceTurns <= 1)
  /\ (lastTurn.reason = "silence" /\ Trim(lastTurn.latest) # <<>>
        => lastTurn.text = lastTurn.latest)
  /\ (hypInSession > 0 /\ ~disturbed /\ quiet = SilenceTicks /\ TimersRan
        /\ Trim(latestTranscript) # <<>>
        => silenceTurns = 1)

\* C2: the silence timer finalizes no turn less than the silence threshold after
\* a hypothesis event
C2_NoTimeoutWhileSpeaking ==
  lastTurn.reason = "silence" => lastTurn.quiet >= SilenceTicks

\* C3: the same finalized text submitted twice in a row is accepted once: no two
\* consecutive accepted turns of the log carry the same user text
C3_DuplicateRejected ==
  \A i \in 1..Len(messages) :
    \A j \in 1..Len(messages) :
      ( /\ messages[i].type = "user" /\ messages[j].type = "user"
        /\ messages[j].turn = messages[i].turn + 1 )
      => messages[j].text # messages[i].text

\* C4: at most one turn is in flight, that is accepted with its response not yet
\* started to play or reported as failed by the speech component
C4_OneTurnInFlight == inFlight <= 1

\* the ai messages of turn k in the log
AgentMessages(k) ==
  { i \in DOMAIN messages : messages[i].turn = k /\ messages[i].type = "ai" }

\* C5: when the response generator throws, handleAnswerRequest appends exactly one
\* ai message, with the apology text, after the turn's user message, and leaves
\* the lock free, so that a turn with another text is accepted afterwards; the
\* lock is free after every call
C5_FaultReleasesLock ==
  /\ ~isProcessing
  /\ lastSubmit = "failed" =>
       /\ Len(messages) >= 2
       /\ messages[Len(messages)].type = "ai"
       /\ messages[Len(messages)].text = ApologyText
       /\ messages[Len(messages)].turn = accepted
       /\ messages[Len(messages) - 1].type = "user"
       /\ messages[Len(messages) - 1].turn = accepted
       /\ Cardinality(AgentMessages(accepted)) = 1
       /\ \A t \in HypTexts :
            Trim(t) # <<>> /\ t # lastProcessedInput => ~Blocked(CurEnv, t)

\* C5 happens: the generator threw in one turn, and the next turn, with another
\* text, was accepted and answered
C5_Witness ==
  /\ lastSubmit = "answered"
  /\ \E i \in DOMAIN messages : \E j \in DOMAIN messages :
       /\ messages[i].type = "ai" /\ messages[i].text = ApologyText
       /\ messages[j].type = "user" /\ messages[j].turn = messages[i].turn + 1
       /\ messages[j].text # messages[i - 1].text

\* C6: while a turn is in flight the lock is held and no other turn is accepted
C6_LockHeldUntilDispatch ==
  [][ /\ inFlight' > 0 => isProcessing'
      /\ inFlight > 0 => accepted' = accepted ]_vars

\* C7: the log holds the accepted turns in order, each turn's user message and
\* then its ai message, and between two calls of handleAnswerRequest the lock
\* is free
C7_LogInOrder ==
  /\ Len(messages) = 2 * accepted
  /\ \A k \in 1..accepted :
       /\ messages[2 * k - 1].type = "user" /\ messages[2 * k - 1].turn = k
       /\ messages[2 * k].type = "ai" /\ messages[2 * k].turn = k
  /\ ~isProcessing

\* C7 happens: two turns with different texts were accepted
C7_Witness ==
  /\ accepted >= 2 /\ Len(messages) >= 4
  /\ messages[1].text # messages[3].text

\* C8: once a call of the remote provider has failed, the same text has been
\* given to the local provider (speechSynthesis)
C8_FallbackOnRemoteFailure == failedText # "" => localText = failedText

\* C9: without an API key the ElevenLabs component is never mounted, no remote
\* call is made, no error is raised, and what is spoken goes to speechSynthesis
C9_UnconfiguredGoesLocal ==
  ~apiKey =>
    /\ mounted # "eleven"
    /\ requests = {} /\ audioState = <<>> /\ failedText = ""
    /\ ttsError = "" /\ el.error = ""
    /\ st.lastSpokenText # "" => localText = st.lastSpokenText

\* C9 happens: without an API key the response is being spoken by speechSynthesis
C9_Witness ==
  /\ ~apiKey /\ currentAIResponse # ""
  /\ utterance = "speaking" /\ localText = currentAIResponse

\* C10: no object URL is revoked twice
C10_RevokedAtMostOnce == \A a \in DOMAIN revokes : revokes[a] <= 1

\* the states of an Audio element whose playback session is over: it ended,
\* failed, was paused, or its play() was rejected by the autoplay policy (with
\* or without a later canplay)
FinishedAudio == { "ended", "error", "paused", "blocked", "stalled" }

\* the speech component has nothing left to do: its last state is committed, no
\* auto-speak timer and no generation request is pending
SpeechQuiet ==
  /\ mounted \in { "eleven", "simple" }
  /\ ttsRend = TTSCur
  /\ speakTimer = NoSpeak
  /\ requests = {}

\* C11: no generated audio is leaked: once the speech component has nothing left
\* to do, the object URL of every session that ended, failed, was stopped or had
\* its play() rejected has been released
C11_NoLeakedURL ==
  SpeechQuiet =>
    \A a \in DOMAIN audioState : audioState[a] \in FinishedAudio => revokes[a] >= 1

\* the Audio elements that are loading or playing, and the playback sessions of
\* ElevenLabsTTS that are active: those elements and the pending generations
ActiveAudio == { a \in DOMAIN audioState : audioState[a] \in { "loading", "playing" } }
ActiveSessions == Cardinality(ActiveAudio) + Cardinality(requests)

PlayRejected ==
  \/ /\ mounted = "eleven"
     /\ \E a \in DOMAIN audioState : audioState[a] \in { "blocked", "stalled" }
  \/ /\ mounted = "simple"
     /\ utterance = "rejected"

\* the mounted speech component waits for a user gesture
NeedsUserGesture ==
  \/ mounted = "eleven" /\ el.needsUserInteraction
  \/ mounted = "simple" /\ st.needsUserInteraction

\* C13: when the platform rejects playback under its autoplay policy, the
\* speech component is in the NeedsUserGesture state and no playback error has
\* been reported to VoiceConversation; in that state no auto-speak timer is
\* pending
C13_GestureStateOnAutoplayBlock ==
  /\ PlayRejected => NeedsUserGesture /\ ttsError = ""
  /\ NeedsUserGesture => speakTimer = NoSpeak

\* render r of the speech component shows the play button, which reads 'Tap to
\* Enable Audio' when needsUserInteraction is set; SimpleTTS renders no button
TapControlOffered(r) ==
  /\ mounted = "eleven"
  /\ r.text # "" /\ ~hideText
  /\ r.el.elevenLabsService /\ r.el.error = ""
  /\ (~autoSpeak \/ isMobile \/ r.el.needsUserInteraction)

\* C14: whenever the speech component is in the NeedsUserGesture state, what it
\* has rendered offers the tap-to-enable-audio control, from which the user can
\* retry speak for the current response
C14_GestureAlwaysAvailable ==
  (NeedsUserGesture /\ ttsRend = TTSCur) => TapControlOffered(ttsRend)

\* C15: a generation that was pending when handleStop ran is cancelled: its
\* audio never starts to load or play, and the component does not return to
\* loading because of it
C15_StopCancelsGeneration ==
  [][ \A r \in requests :
        r.stopped => ~( /\ r \notin requests'
                        /\ Len(audioState') = Len(audioState) + 1
                        /\ audioState'[Len(audioState')] = "loading"
                        /\ el'.isLoading ) ]_vars

\* C16: after the teardown no audio loads or plays, no utterance is spoken, and
\* every object URL that was created, before the teardown or after it, has been
\* released
C16_TeardownReleasesAll ==
  mounted = "gone" =>
    /\ ActiveAudio = {}
    /\ utterance \notin { "pending", "speaking" }
    /\ \A a \in DOMAIN revokes : revokes[a] >= 1

\* C17: a remote generation failure does not block later responses: when a
\* Turn was accepted after a generation had failed, and ElevenLabsTTS has
\* nothing left to do and plays nothing, the response on display is the one
\* last dispatched to speech
C17_GenerationErrorDoesNotBlock ==
  ( /\ mounted = "eleven" /\ failedText # "" /\ inFlight > 0
    /\ SpeechQuiet /\ ActiveAudio = {} ) =>
    el.lastSpokenText = currentAIResponse

\* the messages of a denial reported by the source, or by getUserMedia when the
\* user re-requested access after it
CaptureDenials == { DeniedMessage, RefreshMessage, UnableMessage }

\* C18 as stated: once the source has reported not-allowed, the denial is
\* terminal until access is granted again: while the status is denied and the
\* message is shown, no step starts listening, the message stays shown for as
\* long as the status is denied, and the status leaves denied only by becoming
\* granted, with the message cleared and without capture starting in that step
C18_DeniedUntilGranted ==
  [][ (permissionStatus = "denied" /\ permissionError \in CaptureDenials) =>
        /\ listening' => listening
        /\ permissionStatus' = "denied" => permissionError' # ""
        /\ permissionStatus' # "denied" =>
             /\ listening' = listening
             /\ permissionStatus' = "granted" /\ permissionError' = "" ]_vars

\* C18, amended: the denial is terminal until the permission is granted or
\* changed by the user: while the status is denied and the message is shown, no
\* step starts listening, the message stays shown for as long as the status is
\* denied, and the status leaves denied only in a step that reports the
\* permission (granted, which clears the message, or reset to prompt), never in
\* one that starts or stops capture
C18_DeniedIsTerminal ==
  [][ (permissionStatus = "denied" /\ permissionError \in CaptureDenials) =>
        /\ listening' => listening
        /\ permissionStatus' = "denied" => permissionError' # ""
        /\ permissionStatus' # "denied" =>
             /\ listening' = listening
             /\ permissionStatus' = "granted" => permissionError' = "" ]_vars

\* the source reported not-allowed in a session, the denial is on display and
\* the user could press the microphone button for another session
C18_Witness ==
  /\ Rendered
  /\ permissionStatus = "denied" /\ permissionError = DeniedMessage
  /\ ~isListening /\ ~listening
  /\ sessionsLeft > 0

\* C19: a manual stop finalizes the Turn with the latest hypothesis and cancels
\* the silence timers: the step of handleStopListening that finalizes takes the
\* latest hypothesis text, and once a listening session was stopped by hand no
\* silence timeout finalizes a Turn before the next start
C19_ManualStopCancelsSilence ==
  [][ /\ (lastTurn'.reason = "manual_stop" /\ lastTurn' # lastTurn) =>
           lastTurn'.text = latestTranscript
      /\ (lastTurn.reason = "manual_stop" /\ disturbed /\ disturbed') =>
           lastTurn'.reason # "silence" ]_vars

\* C20: the end and the error of the source finalize no Turn and cancel the
\* silence timers: a step in which the source ends or errors leaves the last
\* Turn alone, and after it no Turn is finalized before the next start
C20_NoTurnAfterSourceEnded ==
  [][ /\ (~disturbed /\ disturbed' /\ lastTurn'.reason # "manual_stop") =>
           lastTurn' = lastTurn
      /\ (~listening /\ disturbed /\ disturbed' /\ lastTurn.reason # "manual_stop") =>
           lastTurn' = lastTurn ]_vars



\* C21: when the latest accumulated text is empty or blank at the moment a turn
\* is finalized, by the silence timeout or by the stop button, no turn is
\* emitted, and no older transcript is emitted in its place: every finalized
\* turn was finalized while the latest text had content.
C21_BlankLatestEmitsNothing ==
  lastTurn # NoTurn => Trim(lastTurn.latest) # <<>>


CalledWith(userInput) == call # NoCall /\ call.context.userInput = userInput

\* C22: Scenario A. For the input "Hello" the intent is greeting, the response
\* text is one of the greeting pool, the detected emotion is friendly and the
\* suggested voice style is friendly.
C22_ScenarioA ==
  CalledWith(<<"H", "e", "l", "l", "o">>) =>
    /\ call.intent = "greeting"
    /\ call.result.text \in greetings
    /\ call.result.emotion = "friendly"
    /\ call.result.suggestedVoiceStyle = "friendly"

\* C23: Scenario C. For the input "I'm so excited about this!" the detected
\* emotion is excited, the intent is conversation, the response is one of the
\* base conversation pool or of the two excited entries, and the suggested voice
\* style is excited.
C23_ScenarioC ==
  CalledWith(<<"I", "'", "m", " ", "s", "o", " ", "e", "x", "c", "i", "t", "e", "d", " ", "a", "b", "o", "u", "t", " ", "t", "h", "i", "s", "!">>) =>
    /\ call.result.emotion = "excited"
    /\ call.intent = "conversation"
    /\ call.result.text \in BaseResponses \cup ExcitedResponses
    /\ call.result.suggestedVoiceStyle = "excited"

Blank(userInput) == \A i \in DOMAIN userInput : userInput[i] = " "

\* C24: Scenario B. For every empty or blank input generateResponse does not
\* classify, and returns exactly the text "I didn't catch that. Could you please
\* say something?" with the emotion neutral and the suggested style friendly.
C24_ScenarioB ==
  (call # NoCall /\ Blank(call.context.userInput)) =>
    /\ call.detectedEmotion = "unset" /\ call.intent = "unset"
    /\ call.result = [text |-> "I didn't catch that. Could you please say something?",
                      emotion |-> "neutral", suggestedVoiceStyle |-> "friendly"]

\* both the empty and the blank input were answered, each after a call that had
\* classified its input
C24_Witness ==
  /\ call # NoCall /\ Blank(call.context.userInput)
  /\ call.context.userInput # <<>>
  /\ call.context.conversationHistory # <<>>
  /\ earlier # NoCall /\ earlier.intent # "unset"


EmotionOrder == << "excited", "gentle", "professional", "friendly" >>

Range(seq) == { seq[i] : i \in DOMAIN seq }

\* the strings detectEmotion tests for a category
EmotionKeywords(category) ==
  CASE category = "excited" -> ExcitedWords
    [] category = "gentle" -> GentleWords
    [] category = "professional" -> ProfessionalWords
    [] category = "friendly" -> FriendlyWords \cup { <<"h", "i">> }

\* a keyword of the category occurs in the lower-cased input
KeywordOccurs(category, input) ==
  IncludesAny(ToLowerCase(input), EmotionKeywords(category))

\* the category matches the lower-cased input: one of its keywords occurs in it,
\* except that "hi" counts for friendly only at the start of the input
EmotionMatches(category, input) ==
  IF category = "friendly"
  THEN \/ IncludesAny(ToLowerCase(input), FriendlyWords)
       \/ StartsWith(ToLowerCase(input), <<"h", "i">>)
  ELSE KeywordOccurs(category, input)

\* the first category, in the order of precedence, for which matches is true
FirstEmotion(matches) ==
  IF \E i \in DOMAIN EmotionOrder : matches[EmotionOrder[i]]
  THEN EmotionOrder[CHOOSE i \in DOMAIN EmotionOrder :
                      /\ matches[EmotionOrder[i]]
                      /\ \A j \in 1..(i - 1) : ~matches[EmotionOrder[j]]]
  ELSE "neutral"

Classified == call # NoCall /\ call.detectedEmotion # "unset"

\* C25, as stated: for every input the detected emotion is the first category,
\* in the order excited, gentle, professional, friendly, whose keyword set has a
\* member occurring in the lower-cased input, and neutral when none has.
C25_FirstKeywordOccurring ==
  Classified => call.detectedEmotion =
    FirstEmotion([c \in Range(EmotionOrder) |-> KeywordOccurs(c, call.context.userInput)])

\* C25, amended: for every input the detected emotion is the first category, in
\* the order excited, gentle, professional, friendly, that matches the
\* lower-cased input, and neutral when none does; friendly matches when
\* "friend", "chat", "talk", "hey" or "hi " occurs in the input or the input
\* starts with "hi".
C25_FirstMatchWins ==
  Classified => call.detectedEmotion =
    FirstEmotion([c \in Range(EmotionOrder) |-> EmotionMatches(c, call.context.userInput)])

\* an input that matches two categories was classified as the first of them
C25_Witness ==
  /\ Classified
  /\ EmotionMatches("excited", call.context.userInput)
  /\ EmotionMatches("gentle", call.context.userInput)
  /\ call.result.emotion = "excited"


IntentOrder == << "greeting", "goodbye", "thanks", "question", "help" >>

\* the strings detectIntent tests for a category; "?" and the wh-words for question
IntentKeywords(category) ==
  CASE category = "greeting" -> GreetingWords
    [] category = "goodbye" -> GoodbyeWords
    [] category = "thanks" -> ThanksWords
    [] category = "question" -> QuestionWords
    [] category = "help" -> HelpWords

IntentMatches(category, input) ==
  IncludesAny(ToLowerCase(input), IntentKeywords(category))

\* C26: for every input the intent is the first category, in the order greeting,
\* goodbye, thanks, question, help, that matches the input, whatever emotion was
\* detected; an input that matches none of them is classified conversation.
C26_IntentPrecedence ==
  Classified =>
    LET input == call.context.userInput
        matching == { i \in DOMAIN IntentOrder : IntentMatches(IntentOrder[i], input) }
    IN /\ \A i \in matching :
            (\A j \in matching : i <= j) => call.intent = IntentOrder[i]
       /\ matching = {} <=> call.intent = "conversation"

\* an input with a question word and a help keyword was classified question, and
\* the call before it classified an input as conversation
C26_Witness ==
  /\ Classified
  /\ IntentMatches("question", call.context.userInput)
  /\ IntentMatches("help", call.context.userInput)
  /\ call.intent = "question"
  /\ earlier # NoCall /\ earlier.intent = "conversation"


DetectedEmotions == { "excited", "gentle", "professional", "friendly", "neutral" }

\* C27, as stated: excited, gentle, professional, friendly and neutral map to
\* themselves, and every other emotion value, confident among them, maps to the
\* default friendly.
C27_FiveStylesElseFriendly ==
  lookup # NoLookup =>
    lookup.suggestedVoiceStyle =
      (IF lookup.emotion \in DetectedEmotions THEN lookup.emotion ELSE "friendly")

\* C27, amended: excited, gentle, professional, friendly, neutral and confident
\* map to themselves, and every other emotion value maps to the default
\* friendly; the style returned by generateResponse for a classified input is
\* the detected emotion itself.
C27_ListedStylesElseFriendly ==
  /\ lookup # NoLookup =>
       lookup.suggestedVoiceStyle =
         (IF lookup.emotion \in DetectedEmotions \cup { "confident" }
          THEN lookup.emotion ELSE "friendly")
  /\ Classified =>
       /\ call.result.emotion \in DetectedEmotions
       /\ call.result.suggestedVoiceStyle = call.result.emotion

\* an emotion value that the table does not list was looked up
C27_Witness ==
  /\ lookup # NoLookup
  /\ lookup.emotion \notin DetectedEmotions \cup { "confident" }
  /\ lookup.suggestedVoiceStyle = "friendly"


\* the entries pushed to the conversation pool for an emotion
EmotionEntries(emotion) ==
  CASE emotion = "excited" -> ExcitedResponses
    [] emotion = "gentle" -> GentleResponses
    [] emotion = "professional" -> ProfessionalResponses
    [] OTHER -> {}

\* C28: for the conversation intent the response is one of the base pool (the
\* texts its five entries can produce), extended with exactly two entries when
\* the emotion is excited, gentle or professional and with none when it is
\* friendly or neutral; an entry of one emotion is never returned for another.
C28_ConversationPool ==
  (Classified /\ call.intent = "conversation") =>
    LET emotion == call.result.emotion
        text == call.result.text
    IN /\ text \in BaseResponses \cup EmotionEntries(emotion)
       /\ Cardinality(EmotionEntries(emotion)) =
            (IF emotion \in { "excited", "gentle", "professional" } THEN 2 ELSE 0)
       /\ \A other \in DetectedEmotions \ { emotion } : text \notin EmotionEntries(other)

\* a gentle conversation input was answered with one of the gentle entries,
\* after a neutral conversation input
C28_Witness ==
  /\ Classified /\ call.intent = "conversation"
  /\ call.result.emotion = "gentle"
  /\ call.result.text \in GentleResponses
  /\ earlier # NoCall /\ earlier.intent = "conversation" /\ earlier.emotion = "neutral"


\* the candidates the call summarized by e drew its text from
CandidatePool(e) ==
  IF e.intent = "unset" THEN { DidntCatch }
  ELSE generateContextualResponse(e.intent, e.emotion)

\* C29: two calls of generateResponse with the same userInput return the same
\* emotion and the same suggested voice style, and draw the text from the same
\* candidate pool, whatever the conversationHistory of each and whatever was
\* called before.
C29_HistoryIndependent ==
  (call # NoCall /\ earlier # NoCall /\ call.context.userInput = earlier.userInput) =>
    /\ call.result.emotion = earlier.emotion
    /\ call.result.suggestedVoiceStyle = earlier.suggestedVoiceStyle
    /\ call.result.text \in CandidatePool(earlier)
    /\ CandidatePool(Summary(call)) = CandidatePool(earlier)

\* a neutral input was given twice, first without history and then after a
\* conversation that had a sad keyword in it
C29_Witness ==
  /\ call # NoCall /\ earlier # NoCall
  /\ call.context.userInput = earlier.userInput
  /\ earlier.conversationHistory = <<>>
  /\ IncludesAny(Joined(call.context.conversationHistory), GentleWords)
  /\ call.result.emotion = "neutral"


\* the text of the response that is being generated, loaded or played, if any
SpokenNow ==
  IF mounted = "eleven" /\ (ActiveAudio # {} \/ requests # {}) THEN { el.lastSpokenText }
  ELSE IF mounted = "simple" /\ utterance \in { "pending", "speaking" } THEN { localText }
  ELSE {}

\* C30: pending speech is not queued. A response that arrives while another one
\* is loading or playing supersedes it: once the speech component has rendered
\* the new response and has no timer pending, nothing but the new response is
\* being generated, loaded or played, so that no response waits for the end of
\* an earlier one.
C30_NoQueuedSpeech ==
  (mounted \in { "eleven", "simple" } /\ ttsRend = TTSCur /\ speakTimer = NoSpeak) =>
    \A text \in SpokenNow : text = currentAIResponse


\* the keys of ELEVENLABS_VOICE_PRESETS
PresetKeys ==
  { "rachel_casual", "sarah_professional", "brian_narrator", "alice_british",
    "river_neutral", "eric_confident" }

\* the presets that carry the name of a voice style: Sarah (Professional), River
\* (Neutral), Eric (Confident); no preset is named for the other styles
PresetsNamedFor(style) ==
  CASE style = "professional" -> { "sarah_professional" }
    [] style = "neutral" -> { "river_neutral" }
    [] style = "confident" -> { "eric_confident" }
    [] OTHER -> PresetKeys

\* the voice style the generator suggested for the response on display, when the
\* last submit was answered by the generator
SuggestedNow == voiceStyleMap(detectEmotion(lastProcessedInput))

\* C31: the preset used to speak a response is selected from the suggested voice
\* style of that response. No preset is selected by the user in this
\* specification, so every generation request for the response on display uses
\* a preset named for the suggested style of that response.
C31_PresetFromStyle ==
  \A r \in requests :
    (lastSubmit = "answered" /\ r.text = currentAIResponse) =>
      r.preset \in PresetsNamedFor(SuggestedNow)


\* the speech component is at rest: its render is committed, no auto-speak timer
\* and no generation is pending, and nothing is loading or playing
SpeechAtRest ==
  /\ SpeechQuiet
  /\ ActiveAudio = {}
  /\ utterance \notin { "pending", "speaking" }

\* no speech error is on display, in the component or in the conversation
NoSpeechError ==
  /\ el.error = "" /\ ttsError = "" /\ failedText = ""
  /\ utterance # "rejected"

\* C32: every accepted turn hands its response to the speech component and leads
\* to one speak dispatch, also when its response text equals the text of the
\* response before it: once the speech component is at rest without an error, no
\* accepted turn is left whose response was not spoken.
C32_EveryTurnSpoken ==
  (SpeechAtRest /\ NoSpeechError) => inFlight = 0

(* ------------------ the conversation with its Clear button ------------- *)

\* clearConversation: the Clear button of the conversation's header
ClearConversation ==
  /\ mounted # "gone"
  /\ messages' = << >>
  /\ currentAIResponse' = ""
  /\ lastProcessedInput' = << >>
  /\ isProcessing' = FALSE
  /\ UNCHANGED << ttsError, viVars, schedVars, histVars, ttsVars, genVars >>

\* the conversation component: turns are submitted, the log is cleared, and the
\* component re-renders
NextClear ==
  \/ SubmitTurn
  \/ ClearConversation
  \/ Render

SpecClear == InitSpeak /\ [][NextClear]_vars

\* the log s is the beginning of the log t
IsPrefix(s, t) == Len(s) <= Len(t) /\ SubSeq(t, 1, Len(s)) = s

\* C33 as stated: the conversation log is append-only: every operation of the
\* conversation component leaves the log unchanged or appends messages at its
\* end; no message is ever removed, reordered or modified.
C33_AppendOnly == [][IsPrefix(messages, messages')]_vars

\* C33: every operation of the conversation component leaves the log unchanged
\* or appends messages at its end, except clearConversation, which empties the
\* log; no message is removed on its own, reordered or modified.
C33_AppendOrClear == [][IsPrefix(messages, messages') \/ messages' = << >>]_vars

\* a log of two turns was cleared and a turn was submitted after that
C33_Witness == accepted = MaxTurns /\ Len(messages) = 2

\* the silence timers that were set and neither ran nor were cleared
PendingSilenceTimers == { t \in timers : t.kind = "silence" }

\* C34: in every reachable state at most one silence timer is pending: each
\* hypothesis event cancels the timer scheduled before it, also when two
\* hypothesis events are handled before the component re-renders.
C34_OneSilenceTimer == Cardinality(PendingSilenceTimers) <= 1

\* a call of handleAnswerRequest was accepted in this step: its text is the
\* last-accepted text after the step
Accepts == accepted' # accepted

\* C35: a rejected submit is a no-op: a call of handleAnswerRequest that returns
\* at its guard leaves the log, the lock, the last-accepted text and the current
\* AI response unchanged, and a call is rejected, not accepted, when its text is
\* blank, when the lock is held, or when its text equals the text of the most
\* recently accepted turn.
C35_RejectedIsNoOp ==
  [][ /\ (lastSubmit' = "rejected" /\ lastSubmit # "rejected") => UNCHANGED vcVars
      /\ Accepts => /\ Trim(lastProcessedInput') # << >>
                    /\ ~isProcessing
                    /\ lastProcessedInput' # lastProcessedInput ]_vars

\* the error of the last call names the HTTP status of the response
NamesStatus ==
  /\ service.net.responded
  /\ \E i \in DOMAIN service.result.error.message :
       service.result.error.message[i] = StatusString(service.net.status)

\* C36 as stated: the remote provider call yields audio or fails with an error
\* carrying the HTTP status: audio only for a 2xx response, an error naming the
\* status otherwise, and an object URL only when generation succeeded.
C36_AudioOrStatusError ==
  service.made =>
    /\ ~service.result.threw => (service.net.responded /\ ResponseOk(service.net.status))
    /\ service.result.threw => NamesStatus
    /\ service.result.created <=> ~service.result.threw

\* C36: generateSpeech returns the audio bytes only for a 2xx response and throws
\* an error naming the status for every other response; when fetch rejects or
\* the body of a 2xx response cannot be read it throws that error, which carries
\* no status; generateSpeechUrl creates an object URL only when generation
\* succeeded.
C36_AudioOrError ==
  service.made =>
    /\ ~service.result.threw =>
         /\ service.net.responded /\ ResponseOk(service.net.status)
         /\ service.result.url = << "blob:", << service.text, service.voice_id >> >>
    /\ (service.net.responded /\ ~ResponseOk(service.net.status)) =>
         service.result.threw /\ NamesStatus
    /\ ~service.net.responded => service.result.threw /\ service.result.error = FetchError
    /\ service.result.created <=> ~service.result.threw

\* C36 happens: the last call was answered with status 401 and threw
C36_Witness ==
  /\ service.made /\ service.net.responded /\ service.net.status = 401
  /\ service.result.threw /\ ~service.result.created

\* the positions of the log that hold an agent message
AgentPositions == { i \in DOMAIN messages : messages[i].type = "ai" }

\* C37: after any sequence of submits the log is a sequence of adjacent pairs
\* (user message, agent message): the log starts with a user message, every user
\* message is immediately followed by one agent message and every agent message
\* by a user message or by nothing, so that the number of agent messages equals
\* the number of accepted turns.
C37_AdjacentPairs ==
  /\ messages # << >> => messages[1].type = "user"
  /\ \A i \in DOMAIN messages :
       IF messages[i].type = "user"
       THEN i < Len(messages) /\ messages[i + 1].type = "ai"
       ELSE i < Len(messages) => messages[i + 1].type = "user"
  /\ Cardinality(AgentPositions) = accepted

\* two turns were accepted, one answered by the generator and one by the apology
\* of the catch block
C37_Witness ==
  /\ accepted = 2
  /\ \E i \in AgentPositions : messages[i].text = ApologyText
  /\ \E i \in AgentPositions : messages[i].text # ApologyText

\* C38: every message of the log has an id distinct from the id of every other
\* message of the log, also the user message and the agent message appended for
\* the same turn within one reading of the clock.
C38_DistinctIds ==
  \A i \in DOMAIN messages : \A j \in DOMAIN messages :
    i # j => messages[i].id # messages[j].id

\* ElevenLabsTTS shows neither the loading nor the speaking state
FlagsDown(e) == ~e.isLoading /\ ~e.isSpeaking

\* C39: the playback flags of ElevenLabsTTS never disagree: isLoading and
\* isSpeaking are never both true, and after handleStop both stay false until a
\* new speak is dispatched: while they are false, a generation that handleStop
\* has stopped does not raise them when it settles.
C39_FlagsAgree ==
  [][ /\ ~(el'.isLoading /\ el'.isSpeaking)
      /\ \A r \in requests :
           (r.stopped /\ r \notin requests' /\ FlagsDown(el)) => FlagsDown(el') ]_vars

====
